---- MODULE Spec2Model ----
(***************************************************************************)
(* Model of the TwisTorr 304 FS serial protocol code:                      *)
(*   src/tt304.py     crc, TT304.pack / send / receive / query_raw / ...   *)
(*   src/twistorr.py  crc_bytes, pack_request, scan_for_replies,           *)
(*                    unpack_reply, controller                             *)
(* Bytes are naturals 0..255, byte strings are sequences of bytes.         *)
(***************************************************************************)
EXTENDS Integers, Sequences, FiniteSets, TLC

(***************************************************************************)
(* Protocol constants (src/tt304.py:10-24, src/twistorr.py:7-21)           *)
(***************************************************************************)
ACK == 6
NACK == 21
STX == 2
ETX == 3
ON == 49
OFF == 48
WR == 49
RD == 48
AddrBase == 128

(***************************************************************************)
(* Bounds of the model                                                     *)
(***************************************************************************)
WinBelow == 101
WinHi == 1001
MaxData == 1
MaxRetries == 2
MaxCrcLen == 3
MaxBody == 2

DataBytes == {49, 65}
IntData == {ON, 5}
Modes == {RD, WR, 50}
Coms == {"r", "w", "x"}
DevNos == {0, 31, 32}
CrcAlphabet == {10, 128, 3, 49}

(***************************************************************************)
(* Values passed to and returned from the Python functions                 *)
(***************************************************************************)
IntVal(n) == [kind |-> "int", n |-> n, s |-> <<>>]
StrVal(s) == [kind |-> "str", n |-> 0, s |-> s]

NoRet == [kind |-> "none", bytes |-> <<>>, exc |-> "", devno |-> 0, ok |-> FALSE]
RetNone == [kind |-> "None", bytes |-> <<>>, exc |-> "", devno |-> 0, ok |-> FALSE]
Raise(e) == [kind |-> "raise", bytes |-> <<>>, exc |-> e, devno |-> 0, ok |-> FALSE]
RetBytes(b) == [kind |-> "bytes", bytes |-> b, exc |-> "", devno |-> 0, ok |-> FALSE]
RetBool(b) == [kind |-> "bool", bytes |-> <<>>, exc |-> "", devno |-> 0, ok |-> b]
RetReply(p, d, c) == [kind |-> "reply", bytes |-> p, exc |-> "", devno |-> d, ok |-> c]
RetList(l) == [kind |-> "list", bytes |-> l, exc |-> "", devno |-> 0, ok |-> FALSE]

RECURSIVE SeqsUpTo(_, _)
SeqsUpTo(S, n) ==
    IF n = 0 THEN {<<>>}
    ELSE LET shorter == SeqsUpTo(S, n - 1)
         IN shorter \cup {Append(s, b) : s \in {t \in shorter : Len(t) = n - 1}, b \in S}

(***************************************************************************)
(* Python helpers: slices, integer formatting, xor                         *)
(***************************************************************************)
Min(a, b) == IF a < b THEN a ELSE b
Max(a, b) == IF a > b THEN a ELSE b

\* index normalisation of a Python slice bound k on a sequence of length n
NormIdx(k, n) == IF k < 0 THEN Max(0, n + k) ELSE Min(k, n)

\* s[i:j] with Python semantics (0-based, negative bounds count from the end)
PySlice(s, i, j) == SubSeq(s, NormIdx(i, Len(s)) + 1, NormIdx(j, Len(s)))

\* s[i:]
PyFrom(s, i) == SubSeq(s, NormIdx(i, Len(s)) + 1, Len(s))

RECURSIVE BitXor(_, _)
BitXor(a, b) ==
    IF a = 0 THEN b
    ELSE IF b = 0 THEN a
    ELSE (((a % 2) + (b % 2)) % 2) + (2 * BitXor(a \div 2, b \div 2))

RECURSIVE DecDigits(_)
DecDigits(n) == IF n < 10 THEN <<48 + n>> ELSE Append(DecDigits(n \div 10), 48 + (n % 10))

HexChar(d) == IF d < 10 THEN 48 + d ELSE 55 + d

RECURSIVE HexDigits(_)
HexDigits(n) == IF n < 16 THEN <<HexChar(n)>> ELSE Append(HexDigits(n \div 16), HexChar(n % 16))

RECURSIVE ZeroPad(_, _)
ZeroPad(s, w) == IF Len(s) >= w THEN s ELSE ZeroPad(<<48>> \o s, w)

\* '{:03d}'.format(n): minimum field width 3, the sign counts in the width
Format03d(n) == IF n >= 0 THEN ZeroPad(DecDigits(n), 3) ELSE <<45>> \o ZeroPad(DecDigits(-n), 2)

\* '%0.3i' % n: precision 3, at least 3 digits, the sign is extra
FormatPrec3i(n) == IF n >= 0 THEN ZeroPad(DecDigits(n), 3) ELSE <<45>> \o ZeroPad(DecDigits(-n), 3)

\* '{:X}'.format(n): uppercase hexadecimal, no padding
FormatX(n) == HexDigits(n)

\* '%0.2X' % n: uppercase hexadecimal, at least 2 digits
FormatPrec2X(n) == ZeroPad(HexDigits(n), 2)

RECURSIVE XorAll(_)
XorAll(bl) == IF Len(bl) = 0 THEN 0 ELSE BitXor(Head(bl), XorAll(Tail(bl)))

(***************************************************************************)
(* Checksums                                                               *)
(***************************************************************************)
crc_low_digit(byte_list) == <<HexChar(XorAll(byte_list) % 16)>>

crc(byte_list) == FormatX(XorAll(byte_list))

crc_bytes(byte_list) == FormatPrec2X(XorAll(byte_list))

IsByteList(bl) == \A i \in 1..Len(bl) : bl[i] \in 0..255

(***************************************************************************)
(* TT304.pack(self, window, mode, data)                                    *)
(***************************************************************************)
PackWindow(window) == IF window.kind = "int" THEN Format03d(window.n) ELSE window.s

PackData(data) == IF data.kind = "int" THEN <<data.n>> ELSE data.s

PackBodyNoAddress(dv, window, mode, data) ==
    <<STX>> \o PackWindow(window) \o <<mode>> \o PackData(data) \o <<ETX>>

PackBody(dv, window, mode, data) ==
    <<STX, AddrBase + dv>> \o PackWindow(window) \o <<mode>> \o PackData(data) \o <<ETX>>

pack(dv, window, mode, data) ==
    IF mode = RD /\ data.kind = "int" THEN Raise("TypeError")
    ELSE IF mode = RD /\ Len(data.s) # 0 THEN Raise("ValueError")
    ELSE IF Len(PackWindow(window)) # 3 THEN Raise("ValueError")
    ELSE IF data.kind = "int" /\ data.n # ON /\ data.n # OFF THEN Raise("ValueError")
    ELSE LET body == PackBody(dv, window, mode, data)
             bytes == body \o crc(Tail(body))
         IN IF IsByteList(bytes) THEN RetBytes(bytes) ELSE Raise("ValueError")

(***************************************************************************)
(* twistorr.pack_request(window, com, data, devno)                         *)
(***************************************************************************)
RequestWindow(window) == IF window.kind = "int" THEN FormatPrec3i(window.n) ELSE window.s

RequestCom(com) == IF com = "w" THEN 49 ELSE 48

RequestBody(window, com, data, dv) ==
    <<STX, AddrBase + dv>> \o RequestWindow(window) \o <<RequestCom(com)>> \o data.s \o <<ETX>>

pack_request(window, com, data, dv) ==
    IF com = "r" /\ data.kind = "int" THEN Raise("TypeError")
    ELSE IF com = "r" /\ Len(data.s) # 0 THEN Raise("Exception")
    ELSE IF Len(RequestWindow(window)) # 3 THEN Raise("Exception")
    ELSE IF data.kind = "int" THEN Raise("TypeError")
    ELSE LET body == RequestBody(window, com, data, dv)
             bytes == body \o crc_bytes(Tail(body))
         IN IF IsByteList(bytes) THEN RetBytes(bytes) ELSE Raise("ValueError")

(***************************************************************************)
(* TT304.unpack(reply) and twistorr.unpack_reply(reply)                    *)
(***************************************************************************)
unpack_shifted(reply) ==
    IF reply.kind = "None" \/ Len(reply.bytes) = 0 THEN Raise("Exception")
    ELSE IF Len(reply.bytes) < 2 THEN Raise("IndexError")
    ELSE LET r == reply.bytes
             crc_result == crc(PySlice(r, 1, -2))
             checksum_ok == (PyFrom(r, -2) = crc_result)
         IN RetReply(PySlice(r, 1, -3), r[2] - AddrBase, checksum_ok)

unpack(reply) ==
    IF reply.kind = "None" \/ Len(reply.bytes) = 0 THEN Raise("Exception")
    ELSE IF Len(reply.bytes) < 2 THEN Raise("IndexError")
    ELSE LET r == reply.bytes
             crc_result == crc(PySlice(r, 1, -2))
             checksum_ok == (PyFrom(r, -2) = crc_result)
         IN RetReply(PySlice(r, 2, -3), r[2] - AddrBase, checksum_ok)

unpack_reply(reply) ==
    IF reply.kind = "None" \/ Len(reply.bytes) = 0 THEN Raise("Exception")
    ELSE IF Len(reply.bytes) < 2 THEN Raise("IndexError")
    ELSE LET r == reply.bytes
             crc_result == crc_bytes(PySlice(r, 1, -2))
             checksum_ok == (PyFrom(r, -2) = crc_result)
         IN RetReply(PySlice(r, 2, -3), r[2] - AddrBase, checksum_ok)

(***************************************************************************)
(* twistorr.scan_for_replies: reply_regex = STX .*? ETX \w{2}              *)
(***************************************************************************)
\* \w on a byte string: [a-zA-Z0-9_]
IsWord(b) == b \in (48..57) \cup (65..90) \cup (97..122) \cup {95}

\* '.' matches every byte but the newline (the pattern has no DOTALL flag)
IsDot(b) == b # 10

\* a match of reply_regex that starts at i ends with the first ETX at j > i that
\* is followed by two word bytes, all bytes between i and j matching '.'
EndsAt(s, i, j) ==
    /\ s[j] = ETX
    /\ j + 2 <= Len(s)
    /\ IsWord(s[j + 1])
    /\ IsWord(s[j + 2])
    /\ \A k \in (i + 1)..(j - 1) : IsDot(s[k])

\* last index of the match of reply_regex starting at i, 0 when there is none
MatchEnd(s, i) ==
    IF s[i] # STX THEN 0
    ELSE LET ends == {j \in (i + 1)..Len(s) : EndsAt(s, i, j)}
         IN IF ends = {} THEN 0
            ELSE (CHOOSE j \in ends : \A k \in ends : j <= k) + 2

\* leftmost start of a match at or after pos, 0 when there is none
MatchStart(s, pos) ==
    LET starts == {i \in pos..Len(s) : MatchEnd(s, i) # 0}
    IN IF starts = {} THEN 0 ELSE CHOOSE i \in starts : \A k \in starts : i <= k

\* reply_regex.findall(stream): the non-overlapping matches, left to right
RECURSIVE FindAll(_, _)
FindAll(s, pos) ==
    LET i == MatchStart(s, pos)
    IN IF i = 0 THEN <<>>
       ELSE <<SubSeq(s, i, MatchEnd(s, i))>> \o FindAll(s, MatchEnd(s, i) + 1)

\* reply_regex.sub('', stream): the stream with the matches cut out
RECURSIVE SubAll(_, _)
SubAll(s, pos) ==
    LET i == MatchStart(s, pos)
    IN IF i = 0 THEN SubSeq(s, pos, Len(s))
       ELSE SubSeq(s, pos, i - 1) \o SubAll(s, MatchEnd(s, i) + 1)

RECURSIVE TailAfter(_, _)
TailAfter(s, pos) ==
    LET i == MatchStart(s, pos)
    IN IF i = 0 THEN SubSeq(s, pos, Len(s)) ELSE TailAfter(s, MatchEnd(s, i) + 1)

scan_keeping_tail(s) == [replies |-> FindAll(s, 1), stream |-> TailAfter(s, 1)]

scan_for_replies(s) == [replies |-> FindAll(s, 1), stream |-> SubAll(s, 1)]

(***************************************************************************)
(* State                                                                   *)
(***************************************************************************)
VARIABLES
    devno,          \* TT304.devno
    rs485,          \* TT304.rs485
    self_retries,   \* TT304.retries
    pc,             \* position of the caller / of the running method
    call,           \* the call being made: operation and arguments
    ret,            \* what the call returned or raised
    msg,            \* query_raw / send_raw: the encoded frame
    retries,        \* query_raw: local count of attempts left
    result,         \* receive: bytes read so far
    nwrites,        \* transport: ser.write calls of the current call
    wlog,           \* transport: the byte strings those calls were given
    nshort,         \* transport: ser.write calls that reported a short count
    nflush,         \* transport: ser.flush calls of the current call
    nsleep,         \* time.sleep calls of the current call
    nrecv,          \* receive() calls of the current call
    rxlog,          \* transport: bytes handed out by ser.read since the last write
    silent,         \* transport: no ser.read of the current call has returned a byte
    raw,            \* the value query_raw returned
    stream,         \* controller.stream
    wire,           \* bytes the device has sent and the controller has not read yet
    sent,           \* the frames the device sent, in order
    nfeeds,         \* reads of the controller so far
    found,          \* the replies (raw) found by the last scan_for_replies
    replies,        \* the replies decoded from them
    nreads          \* controller.recv: ser.read calls of the current call

io == <<msg, retries, result, nwrites, wlog, nshort, nflush, nsleep, nrecv, rxlog, silent, raw>>

ctl == <<stream, wire, sent, nfeeds, found, replies, nreads>>

vars == <<devno, rs485, self_retries, pc, call, ret, io, ctl>>

obj == <<devno, rs485, self_retries>>

NoCall ==
    [op |-> "none", window |-> IntVal(0), mode |-> RD, com |-> "r",
     data |-> StrVal(<<>>), dv |-> 0, arg |-> NoRet]

WinStrs == {<<48, 48, 55>>, <<55>>}
WindowVals == {IntVal(n) : n \in (0 - WinBelow)..WinHi} \cup {StrVal(s) : s \in WinStrs}
DataVals == {StrVal(s) : s \in SeqsUpTo(DataBytes, MaxData)} \cup {IntVal(n) : n \in IntData}
CrcInputs == SeqsUpTo(CrcAlphabet, MaxCrcLen)

\* TT304.__init__: ValueError unless rs485 or devno = 0; no object is built then
InitObject ==
    /\ rs485 \in BOOLEAN
    /\ devno \in DevNos
    /\ (rs485 \/ devno = 0)

InitIO ==
    /\ msg = <<>>
    /\ retries = 0
    /\ result = <<>>
    /\ nwrites = 0
    /\ wlog = <<>>
    /\ nshort = 0
    /\ nflush = 0
    /\ nsleep = 0
    /\ nrecv = 0
    /\ rxlog = <<>>
    /\ silent = TRUE
    /\ raw = NoRet

InitCtl ==
    /\ stream = <<>>
    /\ wire = <<>>
    /\ sent = <<>>
    /\ nfeeds = 0
    /\ found = <<>>
    /\ replies = <<>>
    /\ nreads = 0

InitCodec ==
    /\ InitObject
    /\ rs485 = (devno # 0)
    /\ self_retries = 3
    /\ pc = "idle"
    /\ call = NoCall
    /\ ret = NoRet
    /\ InitIO
    /\ InitCtl

(***************************************************************************)
(* Calls of the pure functions                                             *)
(***************************************************************************)
Pack(w, m, d) ==
    /\ call' = [NoCall EXCEPT !.op = "pack", !.window = w, !.mode = m, !.data = d, !.dv = devno]
    /\ ret' = pack(devno, w, m, d)
    /\ pc' = "done"
    /\ UNCHANGED <<obj, io, ctl>>

PackRequest(w, c, d, dv) ==
    /\ call' = [NoCall EXCEPT !.op = "pack_request", !.window = w, !.com = c, !.data = d, !.dv = dv]
    /\ ret' = pack_request(w, c, d, dv)
    /\ pc' = "done"
    /\ UNCHANGED <<obj, io, ctl>>

Crc(bl) ==
    /\ call' = [NoCall EXCEPT !.op = "crc", !.arg = RetBytes(bl)]
    /\ ret' = RetBytes(crc(bl))
    /\ pc' = "done"
    /\ UNCHANGED <<obj, io, ctl>>

CrcBytes(bl) ==
    /\ call' = [NoCall EXCEPT !.op = "crc_bytes", !.arg = RetBytes(bl)]
    /\ ret' = RetBytes(crc_bytes(bl))
    /\ pc' = "done"
    /\ UNCHANGED <<obj, io, ctl>>

\* TT304.unpack applied to the frame pack has just returned
Unpack ==
    /\ pc = "done"
    /\ call.op = "pack"
    /\ ret.kind = "bytes"
    /\ call' = [call EXCEPT !.op = "unpack", !.arg = ret]
    /\ ret' = unpack(ret)
    /\ pc' = "done"
    /\ UNCHANGED <<obj, io, ctl>>

\* unpack_reply applied to the frame pack_request has just returned
UnpackReply ==
    /\ pc = "done"
    /\ call.op = "pack_request"
    /\ ret.kind = "bytes"
    /\ call' = [call EXCEPT !.op = "unpack_reply", !.arg = ret]
    /\ ret' = unpack_reply(ret)
    /\ pc' = "done"
    /\ UNCHANGED <<obj, io, ctl>>

\* replies as a device may send them: STX, address, payload, ETX and two
\* checksum characters, right or wrong
DecodeAddr == {128, 159}
DecodeBytes == {ACK, 138}
DecodeCrc == {48, 53, 56, 57}
DecodeFrames ==
    {<<STX, a>> \o p \o <<ETX, c1, c2>> :
        a \in DecodeAddr, p \in SeqsUpTo(DecodeBytes, MaxBody), c1 \in DecodeCrc, c2 \in DecodeCrc}

\* what a caller may hand to a decoder: a reply, '' or None
DecodeInputs == {RetBytes(f) : f \in DecodeFrames \cup {<<>>}} \cup {RetNone}

\* TT304.unpack(reply)
UnpackFrame(reply) ==
    /\ call' = [NoCall EXCEPT !.op = "unpack", !.arg = reply]
    /\ ret' = unpack(reply)
    /\ pc' = "done"
    /\ UNCHANGED <<obj, io, ctl>>

\* twistorr.unpack_reply(reply)
UnpackReplyFrame(reply) ==
    /\ call' = [NoCall EXCEPT !.op = "unpack_reply", !.arg = reply]
    /\ ret' = unpack_reply(reply)
    /\ pc' = "done"
    /\ UNCHANGED <<obj, io, ctl>>

ResetIO ==
    /\ msg' = <<>>
    /\ retries' = 0
    /\ result' = <<>>
    /\ nwrites' = 0
    /\ wlog' = <<>>
    /\ nshort' = 0
    /\ nflush' = 0
    /\ nsleep' = 0
    /\ nrecv' = 0
    /\ rxlog' = <<>>
    /\ silent' = TRUE
    /\ raw' = NoRet

\* the caller takes the result; the locals of the call are gone, the objects stay
Done ==
    /\ pc = "done"
    /\ pc' = "idle"
    /\ call' = NoCall
    /\ ret' = NoRet
    /\ ResetIO
    /\ UNCHANGED <<obj, ctl>>

NextCodec ==
    \/ pc = "idle" /\ \E w \in WindowVals, m \in Modes, d \in DataVals : Pack(w, m, d)
    \/ pc = "idle" /\ \E w \in WindowVals, c \in Coms, d \in DataVals, dv \in DevNos : PackRequest(w, c, d, dv)
    \/ pc = "idle" /\ \E bl \in CrcInputs : Crc(bl)
    \/ pc = "idle" /\ \E bl \in CrcInputs : CrcBytes(bl)
    \/ Unpack
    \/ UnpackReply
    \/ pc = "idle" /\ \E reply \in DecodeInputs : UnpackFrame(reply)
    \/ pc = "idle" /\ \E reply \in DecodeInputs : UnpackReplyFrame(reply)
    \/ Done

SpecCodec == InitCodec /\ [][NextCodec]_vars

(***************************************************************************)
(* TT304: send, query, query_unpack over the serial transport              *)
(***************************************************************************)
MaxRecv == 2

RxBytes == {STX, 128, ETX, 56, 51}
QueryWindows == {IntVal(0), IntVal(1000)}
QueryModes == {RD, WR}
QueryData == {StrVal(<<>>), StrVal(<<49>>), IntVal(5)}
RetryValues == -1..MaxRetries

Init ==
    /\ InitObject
    /\ self_retries \in RetryValues
    /\ pc = "idle"
    /\ call = NoCall
    /\ ret = NoRet
    /\ InitIO
    /\ InitCtl

SendCatchesAll(exc) == TRUE

\* except IOError (send, line 162): the exceptions send turns into False
SendCatches(exc) == exc = "IOError"

LoopCondOffByOne(r) == r >= 0

\* while retries > 0 (query_raw, line 205)
LoopCond(r) == r > 0

\* start / stop (lines 298-307, 320-329): False when resp is None, else whether
\* the first payload byte of resp is ACK (resp[0][0] of an empty payload raises)
CommandResult(resp) ==
    IF resp.kind = "raise" THEN resp
    ELSE IF resp.kind = "None" THEN RetBool(FALSE)
    ELSE IF Len(resp.bytes) = 0 THEN Raise("IndexError")
    ELSE RetBool(resp.bytes[1] = ACK)

\* what the caller of op gets when query_raw returned v: query hands v on,
\* query_unpack is unpack(query(...)), start / stop work on query_unpack's value
Outcome(op, v) ==
    IF op = "query" THEN v
    ELSE IF op = "query_unpack" THEN unpack(v)
    ELSE CommandResult(unpack(v))

\* the value query_raw returns, as seen by the caller of query / query_unpack
Return(v) ==
    /\ raw' = v
    /\ ret' = Outcome(call.op, v)
    /\ pc' = "done"

\* head of the retry loop of query_raw with r attempts left
LoopHead(r) ==
    IF LoopCond(r) THEN pc' = "send" /\ UNCHANGED <<ret, raw>> ELSE Return(RetNone)

\* query(window, mode, data) and query_unpack(window, mode, data): pack, then
\* enter query_raw
Query(op, w, m, d) ==
    /\ call' = [NoCall EXCEPT !.op = op, !.window = w, !.mode = m, !.data = d, !.dv = devno]
    /\ LET p == pack(devno, w, m, d)
       IN IF p.kind = "raise"
          THEN /\ ret' = p
               /\ pc' = "done"
               /\ UNCHANGED io
          ELSE /\ msg' = p.bytes
               /\ retries' = self_retries
               /\ IF LoopCond(self_retries)
                  THEN pc' = "send" /\ UNCHANGED <<ret, raw>>
                  ELSE /\ raw' = RetNone
                       /\ ret' = Outcome(op, RetNone)
                       /\ pc' = "done"
               /\ UNCHANGED <<result, nwrites, wlog, nshort, nflush, nsleep, nrecv, rxlog, silent>>
    /\ UNCHANGED <<obj, ctl>>

\* start(): query_unpack(0, WR, ON); stop(): query_unpack(0, WR, OFF)
Command(op) == Query(op, IntVal(0), WR, IntVal(IF op = "start" THEN ON ELSE OFF))

\* send(window, mode, data): pack, then send_raw inside try / except IOError
Send(w, m, d) ==
    /\ call' = [NoCall EXCEPT !.op = "send", !.window = w, !.mode = m, !.data = d, !.dv = devno]
    /\ LET p == pack(devno, w, m, d)
       IN IF p.kind = "raise"
          THEN /\ ret' = (IF SendCatches(p.exc) THEN RetBool(FALSE) ELSE p)
               /\ pc' = "done"
               /\ UNCHANGED io
          ELSE /\ msg' = p.bytes
               /\ pc' = "send"
               /\ ret' = ret
               /\ UNCHANGED <<retries, result, nwrites, wlog, nshort, nflush, nsleep, nrecv, rxlog, silent, raw>>
    /\ UNCHANGED <<obj, ctl>>

SendRawFlushFirst(n) ==
    /\ pc = "send"
    /\ nwrites' = nwrites + 1
    /\ wlog' = Append(wlog, msg)
    /\ rxlog' = <<>>
    /\ result' = <<>>
    /\ IF n # Len(msg)
       THEN /\ nshort' = nshort + 1
            /\ nflush' = nflush + 1
            /\ UNCHANGED <<nsleep, nrecv>>
            /\ IF call.op = "send"
               THEN /\ ret' = (IF SendCatches("IOError") THEN RetBool(FALSE) ELSE Raise("IOError"))
                    /\ pc' = "done"
                    /\ UNCHANGED <<retries, raw>>
               ELSE /\ retries' = retries - 1
                    /\ LoopHead(retries - 1)
       ELSE /\ nflush' = nflush + 1
            /\ UNCHANGED <<nshort, retries>>
            /\ IF call.op = "send"
               THEN /\ ret' = RetBool(TRUE)
                    /\ pc' = "done"
                    /\ UNCHANGED <<nsleep, nrecv, raw>>
               ELSE /\ nsleep' = nsleep + 1
                    /\ nrecv' = nrecv + 1
                    /\ pc' = "recv"
                    /\ UNCHANGED <<ret, raw>>
    /\ UNCHANGED <<obj, ctl, call, msg, silent>>

\* send_raw(msg): ser.write reports n bytes; IOError unless n = len(msg), else
\* flush.  In query_raw a failure costs one attempt, a success is followed by
\* time.sleep(waittime) and receive(); in send the outcome is True / False.
SendRaw(n) ==
    /\ pc = "send"
    /\ nwrites' = nwrites + 1
    /\ wlog' = Append(wlog, msg)
    /\ rxlog' = <<>>
    /\ result' = <<>>
    /\ IF n # Len(msg)
       THEN /\ nshort' = nshort + 1
            /\ UNCHANGED <<nflush, nsleep, nrecv>>
            /\ IF call.op = "send"
               THEN /\ ret' = (IF SendCatches("IOError") THEN RetBool(FALSE) ELSE Raise("IOError"))
                    /\ pc' = "done"
                    /\ UNCHANGED <<retries, raw>>
               ELSE /\ retries' = retries - 1
                    /\ LoopHead(retries - 1)
       ELSE /\ nflush' = nflush + 1
            /\ UNCHANGED <<nshort, retries>>
            /\ IF call.op = "send"
               THEN /\ ret' = RetBool(TRUE)
                    /\ pc' = "done"
                    /\ UNCHANGED <<nsleep, nrecv, raw>>
               ELSE /\ nsleep' = nsleep + 1
                    /\ nrecv' = nrecv + 1
                    /\ pc' = "recv"
                    /\ UNCHANGED <<ret, raw>>
    /\ UNCHANGED <<obj, ctl, call, msg, silent>>

\* receive(), first loop: ser.read() hands out one byte
ReceiveByte(b) ==
    /\ pc = "recv"
    /\ Len(result) < MaxRecv \/ b = ETX
    /\ result' = Append(result, b)
    /\ rxlog' = Append(rxlog, b)
    /\ silent' = FALSE
    /\ pc' = IF b = ETX THEN "recvcrc" ELSE "recv"
    /\ UNCHANGED <<obj, ctl, call, ret, raw, msg, retries, nwrites, wlog, nshort, nflush, nsleep, nrecv>>

ReceiveTimeoutCostsTwo ==
    /\ pc \in {"recv", "recvcrc"}
    /\ retries' = retries - 2
    /\ LoopHead(retries - 2)
    /\ UNCHANGED <<obj, ctl, call, msg, result, nwrites, wlog, nshort, nflush, nsleep, nrecv, rxlog, silent>>

\* receive(): ser.read() or ser.read(2) returns '' (nothing within the timeout):
\* IOError, caught in query_raw, which gives up the attempt
ReceiveTimeout ==
    /\ pc \in {"recv", "recvcrc"}
    /\ retries' = retries - 1
    /\ LoopHead(retries - 1)
    /\ UNCHANGED <<obj, ctl, call, msg, result, nwrites, wlog, nshort, nflush, nsleep, nrecv, rxlog, silent>>

ReceiveCrcChecked(c) ==
    /\ pc = "recvcrc"
    /\ result' = result \o c
    /\ rxlog' = rxlog \o c
    /\ silent' = FALSE
    /\ IF unpack(RetBytes(result \o c)).ok
       THEN Return(RetBytes(result \o c)) /\ UNCHANGED retries
       ELSE retries' = retries - 1 /\ LoopHead(retries - 1)
    /\ UNCHANGED <<obj, ctl, call, msg, nwrites, wlog, nshort, nflush, nsleep, nrecv>>

\* receive(): ser.read(2) returns the bytes c (one or two) after ETX, and
\* query_raw returns ''.join(result)
ReceiveCrc(c) ==
    /\ pc = "recvcrc"
    /\ result' = result \o c
    /\ rxlog' = rxlog \o c
    /\ silent' = FALSE
    /\ Return(RetBytes(result \o c))
    /\ UNCHANGED <<obj, ctl, call, msg, retries, nwrites, wlog, nshort, nflush, nsleep, nrecv>>

Next ==
    \/ pc = "idle" /\ \E op \in {"query", "query_unpack"}, w \in QueryWindows,
                          m \in QueryModes, d \in QueryData : Query(op, w, m, d)
    \/ pc = "idle" /\ \E op \in {"start", "stop"} : Command(op)
    \/ pc = "idle" /\ \E w \in QueryWindows, m \in QueryModes, d \in QueryData : Send(w, m, d)
    \/ \E n \in {Len(msg), Len(msg) - 1} : SendRaw(n)
    \/ \E b \in RxBytes : ReceiveByte(b)
    \/ ReceiveTimeout
    \/ \E c \in SeqsUpTo(RxBytes, 2) \ {<<>>} : ReceiveCrc(c)
    \/ Done

Spec == Init /\ [][Next]_vars

(***************************************************************************)
(* The stream scanner fed with what the device sends                       *)
(***************************************************************************)
ScanData == {49, 10, ETX}

\* frames on the wire: what pack_request builds for these arguments
WireFrames ==
    {pack_request(IntVal(0), c, StrVal(d), 0).bytes :
        c \in {"w"}, d \in SeqsUpTo(ScanData, MaxBody)}

RECURSIVE Concat(_)
Concat(fs) == IF Len(fs) = 0 THEN <<>> ELSE Head(fs) \o Concat(Tail(fs))

InitScan ==
    /\ rs485 = FALSE
    /\ devno = 0
    /\ self_retries = 3
    /\ pc = "idle"
    /\ call = NoCall
    /\ ret = NoRet
    /\ InitIO
    /\ stream = <<>>
    /\ sent \in {<<f>> : f \in WireFrames} \cup {<<f, g>> : f \in WireFrames, g \in WireFrames}
    /\ wire = Concat(sent)
    /\ nfeeds = 0
    /\ found = <<>>
    /\ replies = <<>>
    /\ nreads = 0

\* self.stream += self.ser.read(...) with k bytes read, then
\* r, self.stream = scan_for_replies(self.stream) and the decoding of r
Feed(k) ==
    /\ k \in 1..Len(wire)
    /\ LET scan == scan_for_replies(stream \o SubSeq(wire, 1, k))
       IN /\ found' = scan.replies
          /\ stream' = scan.stream
          /\ replies' = [i \in 1..Len(scan.replies) |-> unpack_reply(RetBytes(scan.replies[i]))]
    /\ wire' = SubSeq(wire, k + 1, Len(wire))
    /\ nfeeds' = nfeeds + 1
    /\ UNCHANGED <<obj, pc, call, ret, io, sent, nreads>>

NextScan ==
    \/ Feed(1)
    \/ Feed(Len(wire))

SpecScan == InitScan /\ [][NextScan]_vars

(***************************************************************************)
(* controller.recv                                                         *)
(***************************************************************************)
MaxSegs == 4

\* nbytes_waiting = 128 (recv, line 172): the size asked of every ser.read
nbytes_waiting == 128

\* bytes that belong to no frame: no STX among them
NoiseBlock == [i \in 1..119 |-> 56]

RecvData == {<<>>, <<49>>, <<10>>}

\* what the device puts on the line: frames as pack_request builds them, and
\* noise
Segments ==
    {NoiseBlock} \cup {pack_request(IntVal(0), "w", StrVal(d), 0).bytes : d \in RecvData}

RecvRetries == 0..MaxRetries

\* controller.__init__ (stream = '') and a device that sends up to MaxSegs
\* segments, possibly none
InitRecv ==
    /\ rs485 = FALSE
    /\ devno = 0
    /\ self_retries = 3
    /\ pc = "idle"
    /\ call = NoCall
    /\ ret = NoRet
    /\ InitIO
    /\ stream = <<>>
    /\ sent \in SeqsUpTo(Segments, MaxSegs)
    /\ wire = Concat(sent)
    /\ nfeeds = 0
    /\ found = <<>>
    /\ replies = <<>>
    /\ nreads = 0

\* recv(retries=r): replies = [], then the head of the while loop
Recv(r) ==
    /\ call' = [NoCall EXCEPT !.op = "recv", !.arg = IntVal(r)]
    /\ retries' = r
    /\ replies' = <<>>
    /\ found' = <<>>
    /\ nreads' = 0
    /\ IF r > 0
       THEN pc' = "read" /\ ret' = ret
       ELSE pc' = "done" /\ ret' = RetList(<<>>)
    /\ UNCHANGED <<obj, msg, result, nwrites, wlog, nshort, nflush, nsleep, nrecv, rxlog, silent, raw,
                   stream, wire, sent, nfeeds>>

\* self.ser.read(nbytes_waiting) on a port opened with timeout=None
\* (controller.__init__, line 130) returns once that many bytes have arrived,
\* not before
ReadCanReturn == pc = "read" /\ Len(wire) >= nbytes_waiting

\* one turn of the loop of recv: the read, the scan, the decoding of what it
\* found, and break or retries -= 1
RecvRead ==
    /\ ReadCanReturn
    /\ LET scan == scan_for_replies(stream \o SubSeq(wire, 1, nbytes_waiting))
           rs == replies \o [i \in 1..Len(scan.replies) |->
                                 unpack_reply(RetBytes(scan.replies[i]))]
       IN /\ stream' = scan.stream
          /\ found' = scan.replies
          /\ replies' = rs
          /\ IF Len(rs) > 0
             THEN /\ retries' = retries
                  /\ pc' = "done"
                  /\ ret' = RetList(rs)
             ELSE /\ retries' = retries - 1
                  /\ IF retries - 1 > 0
                     THEN pc' = "read" /\ ret' = ret
                     ELSE pc' = "done" /\ ret' = RetList(rs)
    /\ wire' = SubSeq(wire, nbytes_waiting + 1, Len(wire))
    /\ nreads' = nreads + 1
    /\ nfeeds' = nfeeds + 1
    /\ UNCHANGED <<obj, call, msg, result, nwrites, wlog, nshort, nflush, nsleep, nrecv, rxlog,
                   silent, raw, sent>>

NextRecv ==
    \/ pc = "idle" /\ \E r \in RecvRetries : Recv(r)
    \/ RecvRead
    \/ Done

SpecRecv == InitRecv /\ [][NextRecv]_vars

\* the program keeps running: the caller takes a result that is ready, and a
\* read that can return does return.  The device owes nothing.
FairRecv == SpecRecv /\ WF_vars(Done) /\ []<>(~ReadCanReturn)

(***************************************************************************)
(* Properties                                                              *)
(***************************************************************************)
\* query_raw is running or has returned (pack accepted the request)
InQueryRaw == call.op \in {"query", "query_unpack", "start", "stop"} /\ msg # <<>>

\* C1: when every read of the transport times out and every write succeeds in
\* full, one call of query_raw with r >= 0 configured retries never performs
\* more than r writes, and when it returns it has performed exactly r writes
\* and returns None.
C1_RetryExhaustion ==
    (InQueryRaw /\ self_retries >= 0 /\ silent /\ nshort = 0) =>
        /\ nwrites <= self_retries
        /\ pc = "done" => (nwrites = self_retries /\ raw = RetNone)

C1_Witness ==
    /\ InQueryRaw /\ pc = "done" /\ silent /\ nshort = 0
    /\ self_retries = 2 /\ nwrites = 2 /\ raw = RetNone

\* the bytes read in the current attempt are one complete frame: bytes up to the
\* first ETX and the two bytes after it
CompleteFrame(s) ==
    /\ Len(s) >= 3
    /\ s[Len(s) - 2] = ETX
    /\ \A k \in 1..(Len(s) - 3) : s[k] # ETX

\* the two trailing bytes of frame s are not the checksum of its bytes from the
\* address to ETX
ChecksumMismatch(s) ==
    LET x == XorAll(SubSeq(s, 2, Len(s) - 2))
    IN SubSeq(s, Len(s) - 1, Len(s)) # <<HexChar(x \div 16), HexChar(x % 16)>>

\* C2: once a complete frame has been received in an attempt, query_raw has
\* returned exactly that frame (query returns it, query_unpack returns its
\* decoding, with the flag false when the checksum does not match), and no
\* write follows in that call, whether or not the checksum matches.
C2_FrameReturned ==
    (InQueryRaw /\ CompleteFrame(rxlog)) =>
        /\ pc = "done"
        /\ raw = RetBytes(rxlog)
        /\ call.op = "query" => ret = raw
        /\ call.op = "query_unpack" =>
              (ret.kind = "reply" /\ (ChecksumMismatch(rxlog) => ~ret.ok))

C2_NoFurtherWrite ==
    (InQueryRaw /\ CompleteFrame(rxlog)) => (nwrites' = nwrites \/ call' = NoCall)

C2_ChecksumNoRetry == []C2_FrameReturned /\ [][C2_NoFurtherWrite]_vars

C2_Witness ==
    /\ InQueryRaw /\ CompleteFrame(rxlog) /\ ChecksumMismatch(rxlog)
    /\ call.op = "query_unpack" /\ pc = "done" /\ ret.kind = "reply" /\ ~ret.ok
    /\ retries > 1

\* a request the codec is specified to accept: window in [0,999], mode Read or
\* Write, devno in [0,31], and the frame was built
ValidPack ==
    /\ call.window.kind = "int" /\ call.window.n \in 0..999
    /\ call.mode \in {RD, WR}
    /\ call.dv \in 0..31

ValidRequest ==
    /\ call.window.kind = "int" /\ call.window.n \in 0..999
    /\ call.com \in {"r", "w"}
    /\ call.dv \in 0..31

\* the call decodes the frame that encode built from the arguments on record
Decoded ==
    \/ /\ call.op = "unpack" /\ ValidPack
       /\ call.arg = pack(call.dv, call.window, call.mode, call.data)
    \/ /\ call.op = "unpack_reply" /\ ValidRequest
       /\ call.arg = pack_request(call.window, call.com, call.data, call.dv)

\* the three zero-padded decimal digits of window n in [0,999]
WindowDigits(n) == <<48 + (n \div 100), 48 + ((n \div 10) % 10), 48 + (n % 10)>>

ModeByte == IF call.op = "unpack" THEN call.mode ELSE IF call.com = "w" THEN 49 ELSE 48

\* C3 as stated: decoding the frame built by encode recovers the same devno and
\* the same payload and reports the checksum valid.
C3_RoundTripPayload ==
    Decoded =>
        /\ ret.kind = "reply"
        /\ ret.devno = call.dv
        /\ ret.bytes = PackData(call.data)
        /\ ret.ok

\* C3 amended: decoding the frame built by encode recovers the same devno,
\* reports the checksum valid, and returns as payload everything between the
\* address byte and ETX: the three window digits, the mode byte, then the
\* request payload.
C3_RoundTrip ==
    Decoded =>
        /\ ret.kind = "reply"
        /\ ret.devno = call.dv
        /\ ret.bytes = WindowDigits(call.window.n) \o <<ModeByte>> \o PackData(call.data)
        /\ ret.ok

C3_Witness ==
    /\ call.op = "unpack" /\ ValidPack /\ pc = "done"
    /\ call.window.n = 224 /\ call.mode = WR /\ call.dv = 31
    /\ call.data = StrVal(<<49>>)
    /\ ret = RetReply(<<50, 50, 52, 49, 49>>, 31, TRUE)

\* the two uppercase hexadecimal digits of x in 0..255, zero-padded
TwoHex(x) == <<HexChar(x \div 16), HexChar(x % 16)>>

\* C4: crc and crc_bytes return exactly the two uppercase hexadecimal digits of
\* the xor of the bytes, zero-padded, and every frame built by pack or
\* pack_request ends with ETX followed by exactly two checksum bytes.
C4_ChecksumTwoHexDigits ==
    /\ call.op \in {"crc", "crc_bytes"} => ret.bytes = TwoHex(XorAll(call.arg.bytes))
    /\ (call.op \in {"pack", "pack_request"} /\ ret.kind = "bytes") =>
          (Len(ret.bytes) >= 9 /\ ret.bytes[Len(ret.bytes) - 2] = ETX)

C5_Call ==
    /\ call.op \in {"pack", "pack_request"}
    /\ call.window = IntVal(0)
    /\ call.dv = 0
    /\ call.data = StrVal(<<49>>)
    /\ call.op = "pack" => call.mode = WR
    /\ call.op = "pack_request" => call.com = "w"

\* C5 as stated: window 0, Write, devno 0, payload "1" encodes to
\* 02 80 30 30 30 31 31 03 31 46.
C5_FrameWithChecksum1F == C5_Call => ret = RetBytes(<<2, 128, 48, 48, 48, 49, 49, 3, 49, 70>>)

\* C5 amended: window 0, Write, devno 0, payload "1" encodes to
\* 02 80 30 30 30 31 31 03 42 33; the xor of 80 30 30 30 31 31 03 is 0xB3.
C5_FrameWithChecksumB3 == C5_Call => ret = RetBytes(<<2, 128, 48, 48, 48, 49, 49, 3, 66, 51>>)

C5_Witness == C5_Call /\ call.op = "pack" /\ pc = "done" /\ ret.kind = "bytes"

\* C8: pack and pack_request fail for every integer window outside [0,999],
\* and for a window inside [0,999] the three window bytes of the frame are its
\* zero-padded decimal digits.
C8_WindowValidation ==
    (call.op \in {"pack", "pack_request"} /\ call.window.kind = "int") =>
        IF call.window.n \in 0..999
        THEN ret.kind = "bytes" => SubSeq(ret.bytes, 3, 5) = WindowDigits(call.window.n)
        ELSE ret.kind = "raise"

\* C9: no call of pack or pack_request, whatever its mode argument and data,
\* builds a Read frame with a payload: a frame with mode byte '0' has no data
\* byte between the mode byte and ETX.
C9_ReadCarriesNoData ==
    (call.op \in {"pack", "pack_request"} /\ ret.kind = "bytes" /\ ret.bytes[6] = 48) =>
        (ret.bytes[7] = ETX /\ Len(ret.bytes) <= 9)

\* pack rejects the request of the current call
PackRejects == pack(devno, call.window, call.mode, call.data).kind = "raise"

\* C10: when pack rejects the request, query, query_unpack and send do no
\* write, no flush, no wait and no read, use no attempt, and the error of pack
\* is what the caller gets.
C10_EncodeFailureBeforeIO ==
    (call.op \in {"query", "query_unpack", "send"} /\ PackRejects) =>
        /\ pc = "done"
        /\ ret.kind = "raise" /\ ret.exc \in {"ValueError", "TypeError"}
        /\ nwrites = 0 /\ nflush = 0 /\ nsleep = 0 /\ nrecv = 0 /\ rxlog = <<>> /\ silent
        /\ msg = <<>> /\ retries = 0 /\ raw = NoRet

C10_Witness ==
    /\ call.op = "send" /\ PackRejects /\ call.window = IntVal(1000)
    /\ pc = "done" /\ ret = Raise("ValueError") /\ nwrites = 0

\* every read so far took one byte
OneByOne == nfeeds = Len(Concat(sent)) - Len(wire)

\* C6: the bytes of one valid frame appended one at a time to an empty buffer,
\* with a scan after each: no reply and the bytes kept before the last
\* checksum byte, exactly one reply and an empty buffer after it.
C6_PartialFrame ==
    (Len(sent) = 1 /\ OneByOne /\ nfeeds > 0) =>
        IF wire # <<>>
        THEN found = <<>> /\ stream = SubSeq(sent[1], 1, nfeeds)
        ELSE found = sent /\ Len(replies) = 1 /\ stream = <<>>

\* C7: one scan of a buffer holding two valid frames F1 F2 returns exactly two
\* replies, the decoding of F1 then the decoding of F2.
C7_TwoFrames ==
    (Len(sent) = 2 /\ nfeeds = 1 /\ wire = <<>>) =>
        /\ found = sent
        /\ replies = <<unpack_reply(RetBytes(sent[1])), unpack_reply(RetBytes(sent[2]))>>

\* C11: every frame written to the transport carries the address byte
\* 0x80 + devno with devno in [0,31], and devno is 0 unless the controller is
\* in rs485 mode (a devno outside the range is rejected before any write).
C11_AddressValid ==
    nwrites > 0 =>
        /\ msg[2] = AddrBase + devno
        /\ devno \in 0..31
        /\ ~rs485 => devno = 0

\* a call built on query_unpack has returned after query_raw made attempts and
\* ran out of them
Exhausted ==
    /\ call.op \in {"query_unpack", "start", "stop"}
    /\ pc = "done"
    /\ nwrites > 0
    /\ raw = RetNone

\* C12: when every attempt of the retry loop fails, query_unpack and the
\* commands built on it return their failure value (False for start and stop)
\* and raise no exception.
C12_ExhaustionReturnsFailure ==
    Exhausted =>
        /\ ret.kind # "raise"
        /\ call.op \in {"start", "stop"} => ret = RetBool(FALSE)

\* C13: when the device never sends a byte, a call of controller.recv(retries)
\* that has started returns (likewise TT304.query_raw, after its bounded
\* attempts).
C13_RecvReturns ==
    (call.op \in {"recv", "query", "query_unpack"} /\ pc # "done" /\ sent = <<>>) ~> (pc = "done")

\* the string has the shape STX, A, p1..pn, ETX, c1, c2
IsFrame(f) == Len(f) >= 5 /\ f[1] = STX /\ f[Len(f) - 2] = ETX

\* C14: decoding a frame STX, A, p1..pn, ETX, c1, c2 does not fail and returns
\* devno A - 0x80, payload p1..pn and a checksum flag that is true exactly when
\* c1 c2 are the two uppercase hex digits of the XOR of A, p1..pn, ETX; decoding
\* fails only on an empty or absent input.
C14_DecodeTolerant ==
    (call.op \in {"unpack", "unpack_reply"} /\ pc = "done") =>
        LET f == call.arg.bytes
            n == Len(f)
        IN /\ IsFrame(f) =>
                  ret = RetReply(SubSeq(f, 3, n - 3), f[2] - AddrBase,
                                 SubSeq(f, n - 1, n) = TwoHex(XorAll(SubSeq(f, 2, n - 2))))
           /\ ret.kind = "raise" => (call.arg.kind = "None" \/ f = <<>>)

\* the checksum function of the call in progress
Checksum(bl) == IF call.op = "crc" THEN crc(bl) ELSE crc_bytes(bl)

\* non-zero masks: every single bit, and some of several bits
Masks == {1, 2, 4, 8, 16, 32, 64, 128, 3, 48, 129, 255}

Perms(n) == {f \in [1..n -> 1..n] : \A i, j \in 1..n : i # j => f[i] # f[j]}

\* C15: the checksum of a byte list does not change when the bytes are permuted
\* or when one non-zero mask is XOR-ed into two of them, and it always changes
\* when a single byte is replaced by a different value.
C15_ChecksumSensitivity ==
    (call.op \in {"crc", "crc_bytes"} /\ pc = "done") =>
        LET bl == call.arg.bytes
            n == Len(bl)
        IN /\ \A f \in Perms(n) : Checksum([i \in 1..n |-> bl[f[i]]]) = ret.bytes
           /\ \A i \in 1..n, v \in 0..255 :
                  v # bl[i] => Checksum([bl EXCEPT ![i] = v]) # ret.bytes
           /\ \A i, j \in 1..n, m \in Masks :
                  i < j => Checksum([bl EXCEPT ![i] = BitXor(bl[i], m),
                                              ![j] = BitXor(bl[j], m)]) = ret.bytes

C15_Witness ==
    /\ call.op = "crc" /\ pc = "done"
    /\ call.arg.bytes = <<128, 3, 49>>
    /\ ret.bytes = <<66, 50>>

\* the string begins with STX and ends with ETX followed by exactly two bytes
OneCompleteFrame(f) == Len(f) >= 4 /\ f[1] = STX /\ f[Len(f) - 2] = ETX

\* C16: whatever bytes the transport hands out, every byte string that
\* query_unpack passes to TT304.unpack (the value query returned) and every
\* string that controller.recv passes to unpack_reply (the strings the scan
\* found) begins with STX and ends with ETX followed by exactly two bytes.
C16_DecodeInputIsFrame ==
    /\ (call.op \in {"query_unpack", "start", "stop"} /\ pc = "done" /\ raw.kind = "bytes") =>
           OneCompleteFrame(raw.bytes)
    /\ \A i \in 1..Len(found) : OneCompleteFrame(found[i])

\* a step in which the controller read bytes and scanned its buffer
ScanStep == nfeeds' = nfeeds + 1

\* the buffer handed to scan_for_replies in that step: self.stream and the bytes
\* just read
Scanned == stream \o SubSeq(wire, 1, Len(wire) - Len(wire'))

\* first index at which f occurs in s, 0 when it does not
FirstAt(s, f) ==
    LET at == {k \in 1..(Len(s) - Len(f) + 1) : SubSeq(s, k, k + Len(f) - 1) = f}
    IN IF at = {} THEN 0 ELSE CHOOSE k \in at : \A j \in at : k <= j

\* s with the frames fs, which occur in it in this order, cut out
RECURSIVE CutOut(_, _)
CutOut(s, fs) ==
    IF fs = <<>> THEN s
    ELSE LET f == Head(fs)
             k == FirstAt(s, f)
         IN SubSeq(s, 1, k - 1) \o CutOut(SubSeq(s, k + Len(f), Len(s)), Tail(fs))

ShortWrite == InQueryRaw /\ nshort' = nshort + 1

\* C18: in query_raw an attempt whose write comes up short does no flush, no
\* wait and no read and costs exactly one attempt; the next attempt, if there
\* is one, writes the same encoded frame again.
C18_ShortWriteStep ==
    ShortWrite =>
        /\ nflush' = nflush /\ nsleep' = nsleep /\ nrecv' = nrecv
        /\ rxlog' = <<>>
        /\ retries' = retries - 1
        /\ msg' = msg
        /\ pc' = IF retries' > 0 THEN "send" ELSE "done"

C18_SameFrame ==
    InQueryRaw => \A i \in 1..Len(wlog) : wlog[i] = pack(devno, call.window, call.mode, call.data).bytes

C18_ShortWrite == []C18_SameFrame /\ [][C18_ShortWriteStep]_vars

C18_Witness ==
    /\ InQueryRaw /\ nshort = 1 /\ nwrites = 2 /\ nflush = 1
    /\ wlog[1] = wlog[2]

\* the attempt in progress, or the one that ended the call with a frame, has
\* not failed
AttemptsNotFailed ==
    IF pc \in {"recv", "recvcrc"} \/ (pc = "done" /\ raw.kind = "bytes") THEN 1 ELSE 0

\* C19: in one call of query_raw the writes never exceed the configured
\* retries, receive is entered only after a write that succeeded in full, the
\* count of attempts left is the configured count less the failed attempts,
\* the configured count is never changed, and with a configured count <= 0 the
\* call writes nothing and returns None.
C19_Counts ==
    InQueryRaw =>
        /\ nwrites <= Max(self_retries, 0)
        /\ nrecv <= nwrites - nshort
        /\ retries = self_retries - (nwrites - AttemptsNotFailed)
        /\ (self_retries <= 0 /\ pc = "done") => (nwrites = 0 /\ raw = RetNone)

C19_Steps ==
    /\ self_retries' = self_retries
    /\ (InQueryRaw /\ call' = call) => retries' \in {retries, retries - 1}

C19_AttemptAccounting == []C19_Counts /\ [][C19_Steps]_vars

C19_Witness ==
    /\ InQueryRaw /\ pc = "done" /\ raw = RetNone
    /\ self_retries = 2 /\ nwrites = 2 /\ nshort = 1 /\ nrecv = 1 /\ retries = 0

\* number of bytes of the device's output the controller has read
Consumed == Len(Concat(sent)) - Len(wire)

\* the last position of segment k in the device's output
SegEnd(k) == Len(Concat(SubSeq(sent, 1, k)))

\* segment k is a frame of which the controller had read a part, but not all,
\* before this step, and of which this step reads the rest
SplitFrameCompleted(k) ==
    /\ sent[k][1] = STX
    /\ SegEnd(k - 1) < Consumed
    /\ Consumed < SegEnd(k)
    /\ SegEnd(k) <= Len(Concat(sent)) - Len(wire')

\* the replies decoded from the frames fs
DecodeAll(fs) == [i \in 1..Len(fs) |-> unpack_reply(RetBytes(fs[i]))]

\* C20, the counts: recv(retries) reads at most `retries` times, returns as soon
\* as a read has yielded a reply, with all the replies of that read in stream
\* order, and returns the empty list when the count has reached zero.
C20_Counts ==
    call.op = "recv" =>
        /\ nreads <= Max(call.arg.n, 0)
        /\ retries = call.arg.n - (IF replies = <<>> THEN nreads ELSE nreads - 1)
        /\ replies # <<>> => (pc = "done" /\ replies = DecodeAll(found))
        /\ pc = "done" => ret = RetList(replies)
        /\ (pc = "done" /\ replies = <<>>) => retries <= 0

\* C20, the steps: a read that completes no frame costs one attempt, and a
\* frame whose first part was read by an earlier call of recv is returned by
\* the call whose first read brings the rest of it.
C20_Steps ==
    (call.op = "recv" /\ ScanStep) =>
        /\ found' = <<>> => retries' = retries - 1
        /\ nreads = 0 =>
              \A k \in 1..Len(sent) : SplitFrameCompleted(k) =>
                  /\ pc' = "done"
                  /\ \E i \in 1..Len(ret'.bytes) : ret'.bytes[i] = unpack_reply(RetBytes(sent[k]))

C20_RecvContract == []C20_Counts /\ [][C20_Steps]_vars

====
